---- MODULE Spec2Model ----
(***************************************************************************)
(* The DHCP lease / presence coordinator of the TechnitiumDNS integration  *)
(* (custom_components/technitiumdns): one polling cycle of                  *)
(* TechnitiumDHCPCoordinator with its suspension points, the batch          *)
(* last-seen query of TechnitiumDNSApi, the diagnostic sensors' lookup and  *)
(* the DynamicSensorManager that diffs the published list against the       *)
(* retained known-device snapshot.                                          *)
(***************************************************************************)
EXTENDS Integers, Sequences, FiniteSets, TLC

(***************************************************************************)
(* Bounds of the model                                                      *)
(***************************************************************************)
\* longest lease list the server returns in one poll
MaxLeases == 2

\* longest DNS log window the server returns in one poll
MaxEntries == 2

\* clock resolution: a minute is TicksPerMinute ticks, so that elapsed
\* times that are not whole minutes exist
TicksPerMinute == 2

(***************************************************************************)
(* Configuration (entry.options)                                            *)
(***************************************************************************)
\* DEFAULT_DHCP_STALE_THRESHOLD, minutes
stale_threshold_minutes == 60

\* DEFAULT_DHCP_SMART_ACTIVITY: the option the configuration flow stores
dhcp_smart_activity == TRUE

\* entry.options.get("dhcp_ip_filter_mode", "disabled")
ip_filter_mode == "disabled"

\* entry.options.get("dhcp_ip_ranges", ""): a ranges string is the sequence
\* of its lexical pieces (addresses, separators, blanks, other text)
ip_ranges == <<>>

(***************************************************************************)
(* MAC addresses are character sequences, so that str.upper(), len() and    *)
(* str.replace() are computed and not assumed.                              *)
(***************************************************************************)
\* the twelve hex digits of two devices, as a server may spell them
DigitsA == <<"a", "a", "b", "b", "c", "c", "d", "d", "e", "e", "0", "1">>
DigitsB == <<"A", "A", "B", "B", "C", "C", "D", "D", "E", "E", "0", "2">>

\* d[1]d[2] sep d[3]d[4] sep ... : the 17-character spelling of 12 digits
Separated(d, sep) ==
    [i \in 1..17 |-> IF i % 3 = 0 THEN sep ELSE d[i - (i \div 3)]]

\* the raw hardwareAddress values of the leases: device A hyphenated in
\* lower case (the server's spelling), device B with colons in upper case,
\* and a missing one
MacAHyphen == Separated(DigitsA, "-")
MacBColon == Separated(DigitsB, ":")
NoMac == <<>>
RawMacs == {MacAHyphen, MacBColon, NoMac}

\* str.upper() on one character
UpperChar(c) ==
    CASE c = "a" -> "A"
      [] c = "b" -> "B"
      [] c = "c" -> "C"
      [] c = "d" -> "D"
      [] c = "e" -> "E"
      [] c = "f" -> "F"
      [] OTHER -> c

\* a normalisation that would keep the letter case
UpperKeepingCase(s) == s

\* str.upper()
Upper(s) == [i \in 1..Len(s) |-> UpperChar(s[i])]

\* str.replace('-', ':')
ReplaceHyphen(s) == [i \in 1..Len(s) |-> IF s[i] = "-" THEN ":" ELSE s[i]]

\* ':'.join([mac_upper[i:i+2] for i in range(0, 12, 2)])
JoinPairs(s) == Separated(s, ":")

\* utils.normalize_mac_address
normalize_mac_address(mac_address) ==
    IF mac_address = <<>> THEN <<>>
    ELSE LET mac_upper == Upper(mac_address)
         IN  IF Len(mac_upper) = 12 THEN JoinPairs(mac_upper)
             ELSE IF Len(mac_upper) = 17 THEN ReplaceHyphen(mac_upper)
             ELSE mac_upper

(***************************************************************************)
(* Addresses and timestamps                                                 *)
(***************************************************************************)
\* JSON null
NoneValue == "None"

NoIp == ""
LeaseIps == {"10.0.0.1", "10.0.0.2"}
RawIps == LeaseIps \cup {NoIp}

\* a timestamp string of a log entry: an ISO-8601 instant, given by how many
\* ticks before the cycle's datetime.now() it lies, or a string that
\* datetime.fromisoformat rejects.  NoneTs is Python's None.
NoneTs == [kind |-> "none", age |-> 0]
BadTs == [kind |-> "bad", age |-> 0]
IsoTs(a) == [kind |-> "iso", age |-> a]

\* elapsed times of the log entries: exactly the threshold, a fraction of a
\* minute past it, a whole minute past it
Ages == {stale_threshold_minutes * TicksPerMinute,
         stale_threshold_minutes * TicksPerMinute + 1,
         (stale_threshold_minutes + 1) * TicksPerMinute}

Timestamps == {IsoTs(a) : a \in Ages} \cup {BadTs}

\* int(x) of Python for x = ticks / TicksPerMinute: truncation towards zero
IntMinutes(ticks) ==
    IF ticks >= 0 THEN ticks \div TicksPerMinute
    ELSE 0 - ((0 - ticks) \div TicksPerMinute)

(***************************************************************************)
(* Server responses                                                         *)
(***************************************************************************)
\* one entry of response.leases
RawLeases == [address : RawIps, hardwareAddress : RawMacs]

\* sequences over S of length at most n
SeqUpTo(S, n) == UNION {[1..k -> S] : k \in 0..n}

\* a DHCP server leases an address to one client at a time: the non-empty
\* addresses of one response are distinct
DistinctAddresses(leases) ==
    \A i, j \in 1..Len(leases) :
        (i # j /\ leases[i].address # NoIp)
            => leases[i].address # leases[j].address

LeaseLists == {l \in SeqUpTo(RawLeases, MaxLeases) : DistinctAddresses(l)}

\* one entry of the DNS log response
LogEntries == [clientIpAddress : LeaseIps, timestamp : Timestamps]

LogLists == SeqUpTo(LogEntries, MaxEntries)

\* the outcome of api.get_dhcp_leases(): fetch_data raised, or a payload
\* with this status
LeaseOutcomes == {"raise", "error", "ok"}

\* the outcome of the log query of get_last_seen_for_multiple_ips
LogOutcomes == {"raise", "error", "ok"}

(***************************************************************************)
(* Lease normalisation: TechnitiumDHCPCoordinator._async_update_data        *)
(***************************************************************************)
\* str(ipaddress.IPv4Address) of the addresses 10.0.0.0 .. 10.0.0.7 in
\* numeric order; since leading zeros are rejected every address has this
\* one spelling
AddressText ==
    <<"10.0.0.0", "10.0.0.1", "10.0.0.2", "10.0.0.3",
      "10.0.0.4", "10.0.0.5", "10.0.0.6", "10.0.0.7">>

\* ipaddress.IPv4Address(ip_address) does not raise
ValidIPv4(ip_address) ==
    \E n \in 1..Len(AddressText) : AddressText[n] = ip_address

\* int(ipaddress.IPv4Address(ip_address)) - int(IPv4Address("10.0.0.0"))
AddressNumber(ip_address) ==
    (CHOOSE n \in 1..Len(AddressText) : AddressText[n] = ip_address) - 1

\* ipaddress.IPv4Address(text) does not raise, for a piece of a ranges string
IsAddress(text) == Len(text) = 1 /\ ValidIPv4(text[1])

\* the characters str.strip() removes
Whitespace == {" ", "\n"}

RECURSIVE LStrip(_)
LStrip(s) ==
    IF s # <<>> /\ Head(s) \in Whitespace THEN LStrip(Tail(s)) ELSE s

RECURSIVE RStrip(_)
RStrip(s) ==
    IF s # <<>> /\ s[Len(s)] \in Whitespace
    THEN RStrip(SubSeq(s, 1, Len(s) - 1))
    ELSE s

\* str.strip()
Strip(s) == RStrip(LStrip(s))

\* c in s
Contains(s, c) == \E i \in 1..Len(s) : s[i] = c

\* s.index(c)
Find(s, c) ==
    CHOOSE i \in 1..Len(s) : s[i] = c /\ \A j \in 1..(i - 1) : s[j] # c

\* s.split(d)
RECURSIVE Split(_, _)
Split(s, d) ==
    IF ~Contains(s, d) THEN <<s>>
    ELSE <<SubSeq(s, 1, Find(s, d) - 1)>>
             \o Split(SubSeq(s, Find(s, d) + 1, Len(s)), d)

\* the for/else over the delimiters: the string is split by the first of
\* ',', ';' and '\n' it contains, and only by that one
SplitRanges(ip_ranges_str) ==
    LET parts ==
            IF Contains(ip_ranges_str, ",") THEN Split(ip_ranges_str, ",")
            ELSE IF Contains(ip_ranges_str, ";")
                 THEN Split(ip_ranges_str, ";")
            ELSE IF Contains(ip_ranges_str, "\n")
                 THEN Split(ip_ranges_str, "\n")
            ELSE <<ip_ranges_str>>
    IN  [i \in 1..Len(parts) |-> Strip(parts[i])]

\* start-end: both ends are stripped and parsed; a parse error or
\* start > end gives nothing
ParseIpRange(range_entry) ==
    LET start_ip == Strip(SubSeq(range_entry, 1, Find(range_entry, "-") - 1))
        end_ip == Strip(SubSeq(range_entry, Find(range_entry, "-") + 1,
                               Len(range_entry)))
    IN  IF ~IsAddress(start_ip) \/ ~IsAddress(end_ip) THEN {}
        ELSE {AddressText[n + 1] :
                  n \in AddressNumber(start_ip[1])..AddressNumber(end_ip[1])}

\* the prefix length a piece of text spells, -1 when it spells none
PrefixLength(text) ==
    CASE text = <<"30">> -> 30
      [] text = <<"31">> -> 31
      [] text = <<"32">> -> 32
      [] text = <<"33">> -> 33
      [] OTHER -> 0 - 1

\* IPv4Network(range_entry, strict=False).hosts(), and the network address
\* of a /32: a /31 and a /32 have all their addresses as hosts, a shorter
\* prefix all but the first and the last
ParseCidr(range_entry) ==
    LET parts == Split(range_entry, "/")
    IN  IF Len(parts) # 2 THEN {}
        ELSE IF ~IsAddress(parts[1]) THEN {}
        ELSE IF PrefixLength(parts[2]) \notin 0..32 THEN {}
        ELSE LET size == 2 ^ (32 - PrefixLength(parts[2]))
                 address == AddressNumber(parts[1][1])
                 network == address - (address % size)
             IN  IF size <= 2
                 THEN {AddressText[n + 1] : n \in network..(network + size - 1)}
                 ELSE {AddressText[n + 1] :
                           n \in (network + 1)..(network + size - 2)}

\* the body of the loop over the entries
ParseRangeEntry(range_entry) ==
    IF range_entry = <<>> THEN {}
    ELSE IF Contains(range_entry, "-") /\ ~Contains(range_entry, "/")
         THEN ParseIpRange(range_entry)
    ELSE IF Contains(range_entry, "/") THEN ParseCidr(range_entry)
    ELSE IF IsAddress(range_entry) THEN {range_entry[1]}
    ELSE {}

\* utils.parse_ip_ranges
parse_ip_ranges(ip_ranges_str) ==
    IF ip_ranges_str = <<>> \/ Strip(ip_ranges_str) = <<>> THEN {}
    ELSE UNION {ParseRangeEntry(SplitRanges(ip_ranges_str)[i]) :
                    i \in 1..Len(SplitRanges(ip_ranges_str))}

\* a should_track_ip that would take a blank ranges string for an empty one
should_track_ip_blank_as_empty(ip_address, filter_mode, ip_ranges_str) ==
    IF filter_mode = "disabled" \/ Strip(ip_ranges_str) = <<>> THEN TRUE
    ELSE IF ~ValidIPv4(ip_address) THEN FALSE
    ELSE IF filter_mode = "include"
         THEN ip_address \in parse_ip_ranges(ip_ranges_str)
    ELSE IF filter_mode = "exclude"
         THEN ip_address \notin parse_ip_ranges(ip_ranges_str)
    ELSE TRUE

\* utils.should_track_ip
should_track_ip(ip_address, filter_mode, ip_ranges_str) ==
    IF filter_mode = "disabled" \/ ip_ranges_str = <<>> THEN TRUE
    ELSE IF ~ValidIPv4(ip_address) THEN FALSE
    ELSE IF filter_mode = "include"
         THEN ip_address \in parse_ip_ranges(ip_ranges_str)
    ELSE IF filter_mode = "exclude"
         THEN ip_address \notin parse_ip_ranges(ip_ranges_str)
    ELSE TRUE

\* lease.get("type"): None when the lease has no such key
LeaseType(lease) ==
    IF "type" \in DOMAIN lease THEN lease.type ELSE NoneValue

\* a should_include that would refuse the lease types it does not know
ShouldIncludeKnownTypes(lease) ==
    IF lease.address = NoIp THEN FALSE
    ELSE IF lease.hardwareAddress = NoMac THEN FALSE
    ELSE IF LeaseType(lease) = "Dynamic" THEN TRUE
    ELSE IF LeaseType(lease) = "Reserved" THEN TRUE
    ELSE IF LeaseType(lease) \in {"", NoneValue} THEN TRUE
    ELSE FALSE

\* should_include: a lease with an address and a hardware address is
\* included whether its type is Dynamic, Reserved, empty or anything else
ShouldInclude(lease) ==
    IF lease.address = NoIp THEN FALSE
    ELSE IF lease.hardwareAddress = NoMac THEN FALSE
    ELSE IF LeaseType(lease) = "Dynamic" THEN TRUE
    ELSE IF LeaseType(lease) = "Reserved" THEN TRUE
    ELSE IF LeaseType(lease) \in {"", NoneValue} THEN TRUE
    ELSE TRUE

\* should_include and the IP filter of the loop over the raw leases, for a
\* coordinator configured with filter_mode and ip_ranges_str
IncludeLeaseUnder(lease, filter_mode, ip_ranges_str) ==
    /\ ShouldInclude(lease)
    /\ should_track_ip(lease.address, filter_mode, ip_ranges_str)

\* should_include and the IP filter under the default options
IncludeLease(lease) == IncludeLeaseUnder(lease, ip_filter_mode, ip_ranges)

\* processed_lease = {...}: the record appended for an included lease
ProcessedLease(lease) ==
    [ip_address |-> lease.address,
     mac_address |-> Upper(lease.hardwareAddress),
     last_seen |-> NoneTs,
     is_stale |-> FALSE,
     minutes_since_seen |-> 0]

\* the loop "for i, lease in enumerate(leases)"
RECURSIVE ProcessLeasesUnder(_, _, _)
ProcessLeasesUnder(leases, filter_mode, ip_ranges_str) ==
    IF leases = <<>> THEN <<>>
    ELSE IF IncludeLeaseUnder(Head(leases), filter_mode, ip_ranges_str)
         THEN <<ProcessedLease(Head(leases))>>
                  \o ProcessLeasesUnder(Tail(leases), filter_mode,
                                        ip_ranges_str)
         ELSE ProcessLeasesUnder(Tail(leases), filter_mode, ip_ranges_str)

\* the loop under the default options
ProcessLeases(leases) ==
    ProcessLeasesUnder(leases, ip_filter_mode, ip_ranges)

\* the mutant of LeaseFetchFailed: the status of the payload is not looked at
LeaseFetchFailedOnRaiseOnly(outcome) == outcome = "raise"

\* get_dhcp_leases raised, or dhcp_response.get("status") != "ok"
LeaseFetchFailed(outcome) == outcome # "ok"

(***************************************************************************)
(* The batch last-seen query: TechnitiumDNSApi.get_last_seen_for_multiple_ips*)
(***************************************************************************)
\* dict(): no IP has a last-seen time
NoLastSeen == [ip \in {} |-> NoneTs]

\* the index of the first entry of client ip
FirstEntryOf(entries, ip) ==
    CHOOSE i \in 1..Len(entries) :
        /\ entries[i].clientIpAddress = ip
        /\ \A j \in 1..(i - 1) : entries[j].clientIpAddress # ip

\* the loop "for entry in entries": an IP's first entry is recorded, the
\* later ones are skipped
ScanEntries(entries, ip_addresses) ==
    LET found == {ip \in ip_addresses :
                     \E i \in 1..Len(entries) : entries[i].clientIpAddress = ip}
    IN  [ip \in found |-> entries[FirstEntryOf(entries, ip)].timestamp]

\* what get_last_seen_for_multiple_ips returns, the inner probe having
\* reported available
LastSeenTimes(outcome, entries, ip_addresses) ==
    IF outcome # "ok" THEN NoLastSeen
    ELSE IF entries = <<>> THEN NoLastSeen
    ELSE ScanEntries(entries, ip_addresses)

(***************************************************************************)
(* Staleness: TechnitiumDHCPCoordinator._get_last_seen_for_devices          *)
(***************************************************************************)
\* the sentinel of a device without DNS activity
NoActivityMinutes == 9999

\* the mutant of IsStale: a device seen exactly the threshold ago is stale
IsStaleAtThreshold(age) == age >= stale_threshold_minutes * TicksPerMinute

\* minutes_since_seen > self.stale_threshold_minutes, on the float
IsStale(age) == age > stale_threshold_minutes * TicksPerMinute

\* the mutant of NoActivityLease: the device keeps is_stale False
NoActivityLeaseNotStale(lease) ==
    [lease EXCEPT !.last_seen = NoneTs,
                  !.minutes_since_seen = NoActivityMinutes]

\* the else branch: no DNS log entry for the device
NoActivityLease(lease) ==
    [lease EXCEPT !.last_seen = NoneTs,
                  !.is_stale = TRUE,
                  !.minutes_since_seen = NoActivityMinutes]

\* the if branch: the device has a last-seen time
SeenLease(lease, last_seen) ==
    IF last_seen.kind = "iso"
    THEN [lease EXCEPT !.last_seen = last_seen,
                       !.is_stale = IsStale(last_seen.age),
                       !.minutes_since_seen = IntMinutes(last_seen.age)]
    ELSE [lease EXCEPT !.last_seen = last_seen,
                       !.is_stale = FALSE,
                       !.minutes_since_seen = 0]

\* ip_to_lease_map keeps, for an address, the last lease that has it
InLeaseMap(processed, i) ==
    \A j \in (i + 1)..Len(processed) :
        processed[j].ip_address # processed[i].ip_address

\* the loop "for ip_address, lease in ip_to_lease_map.items()"
UpdateLeases(processed, last_seen_times) ==
    [i \in 1..Len(processed) |->
        IF ~InLeaseMap(processed, i) THEN processed[i]
        ELSE IF processed[i].ip_address \in DOMAIN last_seen_times
             THEN SeenLease(processed[i],
                            last_seen_times[processed[i].ip_address])
             ELSE NoActivityLease(processed[i])]

\* ip_addresses of _get_last_seen_for_devices
IpAddresses(processed) ==
    {processed[i].ip_address : i \in 1..Len(processed)}

(***************************************************************************)
(* Consumers: the diagnostic sensors and the DynamicSensorManager           *)
(***************************************************************************)
\* None, where a lease record is expected
NoRecord == [ip_address |-> NoIp,
             mac_address |-> NoMac,
             last_seen |-> NoneTs,
             is_stale |-> FALSE,
             minutes_since_seen |-> 0]

\* sensor.TechnitiumDHCPDeviceDiagnosticSensor._get_device_data, for the
\* sensor whose normalized MAC is mac
GetDeviceData(coordinator_data, mac) ==
    IF \E i \in 1..Len(coordinator_data) :
           coordinator_data[i].mac_address = mac
    THEN coordinator_data[CHOOSE i \in 1..Len(coordinator_data) :
             /\ coordinator_data[i].mac_address = mac
             /\ \A j \in 1..(i - 1) : coordinator_data[j].mac_address # mac]
    ELSE NoRecord

\* current_devices of _handle_coordinator_update
CurrentDevices(coordinator_data) ==
    {normalize_mac_address(coordinator_data[i].mac_address) :
        i \in {j \in 1..Len(coordinator_data) :
                  coordinator_data[j].mac_address # NoMac}}

\* the mutant of IsNewDevice: the MAC is looked up as published
IsNewDeviceRaw(mac_address, known) == mac_address \notin known

\* normalized_mac not in self.known_devices
IsNewDevice(mac_address, known) ==
    normalize_mac_address(mac_address) \notin known

\* the normalized MACs of new_devices: the leases appended while the loop
\* adds to known_devices
NewDevices(coordinator_data, known) ==
    {normalize_mac_address(coordinator_data[i].mac_address) :
        i \in {j \in 1..Len(coordinator_data) :
                  /\ coordinator_data[j].mac_address # NoMac
                  /\ IsNewDevice(coordinator_data[j].mac_address, known)}}

\* the mutant of RemovedDevices: the current devices are not subtracted
RemovedDevicesAllKnown(known, current) == known

\* removed_devices = self.known_devices - current_devices
RemovedDevices(known, current) == known \ current

(***************************************************************************)
(* State                                                                    *)
(***************************************************************************)
VARIABLES
    log_tracking,         \* coordinator.log_tracking (CONF_DHCP_LOG_TRACKING)
    pc,                   \* where the polling cycle is suspended, or "idle"
    processed_leases,     \* the list the cycle in flight is building
    data,                 \* coordinator.data: the published device list
    last_update_success,  \* coordinator.last_update_success
    setup_done,           \* the platforms are set up (first refresh passed)
    listener_pending,     \* a _handle_coordinator_update task is scheduled
    known_devices,        \* DynamicSensorManager.known_devices
    entities,             \* normalized MACs that have diagnostic sensors
    new_devices,          \* new devices of the last handled update
    removed_devices,      \* removed_devices of the last handled update
    cycle,                \* what the cycle that built the list went through
    repeated,             \* the last two polls succeeded with the same leases
    lease_fetch_ok        \* the latest lease fetch returned status "ok"

\* a call of one of the integration's pure functions, checked on its own:
\* the function with its arguments, and what it has returned so far
VARIABLES
    call,                 \* the function called and its arguments
    ret                   \* its return value, or how far its loop has come

\* the statistics coordinator of sensor.py
VARIABLES
    stats                 \* TechnitiumDNSCoordinator: its fields and its clock

call_vars == <<call, ret>>

dhcp_vars ==
    <<log_tracking, pc, processed_leases, data, last_update_success,
      setup_done, listener_pending, known_devices, entities,
      new_devices, removed_devices, cycle, repeated, lease_fetch_ok>>

coordinator_vars == <<dhcp_vars, stats>>

vars == <<coordinator_vars, call_vars>>

\* no function call is under observation
NoCall == [fn |-> "none"]
NoReturn == [outcome |-> "none"]

\* a cycle that did not query the DNS logs
NoLogCycle == [probe |-> "none", batch_probe |-> "none", fetch |-> "none",
               has_entries |-> FALSE, logged_ips |-> {}]

\* the addresses that have an entry in a log window
LoggedIps(entries) ==
    {entries[i].clientIpAddress : i \in 1..Len(entries)}

\* the (address, MAC) pairs of a published list, in order
LeaseKeys(list) ==
    [i \in 1..Len(list) |-> <<list[i].ip_address, list[i].mac_address>>]

\* self._cached_update_info: None, or the response of a check_update
NoUpdateInfo == [cached |-> FALSE, updateAvailable |-> FALSE]
UpdateInfo(available) == [cached |-> TRUE, updateAvailable |-> available]

\* coordinator.data of the statistics coordinator: None, or the dict the
\* cycle returned, of which update_available is kept
NoStatsData == [published |-> FALSE, update_available |-> FALSE]
StatsData(available) == [published |-> TRUE, update_available |-> available]

\* self._last_update_check = None
NeverChecked == 0 - 1

\* a cycle of the statistics coordinator that has not run
NoStatsCycle == [statistics |-> "none", check |-> "none"]

\* TechnitiumDNSCoordinator.__init__, the clock at 0
StatsNotPolled ==
    [now |-> 0,
     last_update_check |-> NeverChecked,
     cached_update_info |-> NoUpdateInfo,
     data |-> NoStatsData,
     last_update_success |-> FALSE,
     went |-> NoStatsCycle]

\* the coordinators and the sensor manager before the first poll
NotPolled ==
    /\ pc = "idle"
    /\ processed_leases = <<>>
    /\ data = <<>>
    /\ last_update_success = FALSE
    /\ setup_done = FALSE
    /\ listener_pending = FALSE
    /\ known_devices = {}
    /\ entities = {}
    /\ new_devices = {}
    /\ removed_devices = {}
    /\ cycle = NoLogCycle
    /\ repeated = FALSE
    /\ lease_fetch_ok = FALSE
    /\ stats = StatsNotPolled

Init ==
    /\ log_tracking \in BOOLEAN
    /\ NotPolled
    /\ call = NoCall
    /\ ret = NoReturn

(***************************************************************************)
(* DataUpdateCoordinator: how a cycle ends                                  *)
(***************************************************************************)
\* _async_update_data returned list: the coordinator replaces its data and
\* calls its listeners
Publish(list, went) ==
    /\ data' = list
    /\ last_update_success' = TRUE
    /\ listener_pending' = setup_done
    /\ pc' = "idle"
    /\ processed_leases' = <<>>
    /\ cycle' = went
    /\ repeated' = (/\ setup_done
                    /\ last_update_success
                    /\ LeaseKeys(list) = LeaseKeys(data))
    /\ UNCHANGED <<log_tracking, setup_done, known_devices, entities,
                   new_devices, removed_devices, call_vars,
                   stats>>

\* _async_update_data raised UpdateFailed: the data stay, the listeners are
\* called when the coordinator turns unavailable
FailCycle ==
    /\ last_update_success' = FALSE
    /\ listener_pending' = (setup_done /\ last_update_success)
    /\ pc' = "idle"
    /\ processed_leases' = <<>>
    /\ repeated' = FALSE
    /\ UNCHANGED <<log_tracking, data, setup_done, known_devices, entities,
                   new_devices, removed_devices, cycle, call_vars,
                   stats>>

\* a coordinator that would expose the list under construction at an await
SuspendPublishing(at, processed) ==
    /\ pc' = at
    /\ processed_leases' = processed
    /\ data' = processed
    /\ cycle' = NoLogCycle
    /\ new_devices' = {}
    /\ removed_devices' = {}
    /\ repeated' = FALSE
    /\ UNCHANGED <<log_tracking, last_update_success, setup_done,
                   listener_pending, known_devices, entities, call_vars,
                   stats>>

\* the cycle is suspended in an await; what the manager logged about the
\* previous update and what the previous cycle went through are forgotten
Suspend(at, processed) ==
    /\ pc' = at
    /\ processed_leases' = processed
    /\ cycle' = NoLogCycle
    /\ new_devices' = {}
    /\ removed_devices' = {}
    /\ repeated' = FALSE
    /\ UNCHANGED <<log_tracking, data, last_update_success, setup_done,
                   listener_pending, known_devices, entities, call_vars,
                   stats>>

(***************************************************************************)
(* The polling cycle: _async_update_data and _get_last_seen_for_devices     *)
(***************************************************************************)
\* await self.api.get_dhcp_leases() returns or raises; the leases are
\* processed up to the first await of _get_last_seen_for_devices
FetchLeases ==
    /\ pc = "idle"
    /\ ~listener_pending
    /\ \E outcome \in LeaseOutcomes :
       \E leases \in LeaseLists :
          /\ (outcome # "ok") => (leases = <<>>)
          /\ lease_fetch_ok' = (outcome = "ok")
          /\ IF LeaseFetchFailed(outcome)
             THEN FailCycle
             ELSE LET processed == ProcessLeases(leases)
                  IN  IF ~log_tracking \/ IpAddresses(processed) = {}
                      THEN Publish(processed, NoLogCycle)
                      ELSE Suspend("probe", processed)

\* await self.api.test_dns_logs_api() of the coordinator
ProbeLogs ==
    /\ pc = "probe"
    /\ UNCHANGED lease_fetch_ok
    /\ \E available \in BOOLEAN :
          IF ~available
          THEN Publish(processed_leases,
                       [NoLogCycle EXCEPT !.probe = "unavailable"])
          ELSE Suspend("batch_probe", processed_leases)

\* await self.test_dns_logs_api() of get_last_seen_for_multiple_ips
BatchProbe ==
    /\ pc = "batch_probe"
    /\ UNCHANGED lease_fetch_ok
    /\ \E available \in BOOLEAN :
          IF ~available
          THEN Publish(UpdateLeases(processed_leases, NoLastSeen),
                       [NoLogCycle EXCEPT !.probe = "available",
                                          !.batch_probe = "unavailable"])
          ELSE Suspend("log_fetch", processed_leases)

\* the log query of get_last_seen_for_multiple_ips returns or raises, and
\* the leases are updated from what it returns
FetchLogs ==
    /\ pc = "log_fetch"
    /\ UNCHANGED lease_fetch_ok
    /\ \E outcome \in LogOutcomes :
       \E entries \in LogLists :
          /\ (outcome # "ok") => (entries = <<>>)
          /\ Publish(UpdateLeases(processed_leases,
                         LastSeenTimes(outcome, entries,
                                       IpAddresses(processed_leases))),
                     [probe |-> "available",
                      batch_probe |-> "available",
                      fetch |-> outcome,
                      has_entries |-> (entries # <<>>),
                      logged_ips |-> LoggedIps(entries)])

(***************************************************************************)
(* Platform setup and the DynamicSensorManager                              *)
(***************************************************************************)
\* sensor.async_setup_entry after the first refresh: the diagnostic sensors
\* of the devices of the list, then DynamicSensorManager.setup
SetupPlatforms ==
    /\ ~setup_done
    /\ last_update_success
    /\ pc = "idle"
    /\ setup_done' = TRUE
    /\ entities' = CurrentDevices(data)
    /\ known_devices' = CurrentDevices(data)
    /\ UNCHANGED <<log_tracking, pc, processed_leases, data,
                   last_update_success, listener_pending, new_devices,
                   removed_devices, cycle, repeated, lease_fetch_ok,
                   call_vars, stats>>

\* DynamicSensorManager._handle_coordinator_update
HandleCoordinatorUpdate ==
    /\ listener_pending
    /\ listener_pending' = FALSE
    /\ IF data = <<>>
       THEN /\ new_devices' = {}
            /\ removed_devices' = {}
            /\ UNCHANGED <<known_devices, entities>>
       ELSE LET current == CurrentDevices(data)
                new == NewDevices(data, known_devices)
            IN  /\ new_devices' = new
                /\ removed_devices' =
                       RemovedDevices(known_devices \cup new, current)
                /\ known_devices' = current
                /\ entities' = entities \cup new
    /\ UNCHANGED <<log_tracking, pc, processed_leases, data,
                   last_update_success, setup_done, cycle, repeated,
                   lease_fetch_ok, call_vars,
                   stats>>

Next ==
    \/ FetchLeases
    \/ ProbeLogs
    \/ BatchProbe
    \/ FetchLogs
    \/ SetupPlatforms
    \/ HandleCoordinatorUpdate

Spec == Init /\ [][Next]_vars

(***************************************************************************)
(* What the consumers read from a published record                          *)
(***************************************************************************)
\* the record has the activity fields the activity sensors read
HasAssessment(record) ==
    {"activity_score", "is_actively_used"} \subseteq DOMAIN record

\* device_data.get("is_actively_used", False)
IsActivelyUsed(record) ==
    IF "is_actively_used" \in DOMAIN record
    THEN record.is_actively_used
    ELSE FALSE

\* the list in data was built by a cycle that queried the DNS logs
LogCycle == pc = "idle" /\ cycle.probe # "none"

\* the manager has handled the update that published the list in data
Handled == setup_done /\ ~listener_pending

\* a _handle_coordinator_update task runs in this step
Handling == listener_pending /\ ~listener_pending'

(***************************************************************************)
(* Claims                                                                   *)
(***************************************************************************)

\* C1: a step of a cycle whose lease fetch raised or returned a status other
\* than "ok", and every step after it up to the next successful fetch,
\* leaves the published list and the known-device snapshot as they were.
C1_FailedFetchKeepsState ==
    [][(~lease_fetch_ok') =>
           (data' = data /\ known_devices' = known_devices)]_vars

\* C1 witness: a lease fetch failed after a list with devices was published
\* and the listeners have been served
C1_Witness ==
    /\ setup_done
    /\ ~lease_fetch_ok
    /\ ~last_update_success
    /\ ~listener_pending
    /\ data # <<>>

\* C2: when the log query fails after both probes reported available, the
\* cycle fails and the published list stays the previous one.
C2_LogFailureAbortsCycle ==
    [][(pc = "log_fetch" /\ pc' = "idle" /\ cycle'.fetch # "ok") =>
           (data' = data /\ ~last_update_success')]_vars

\* C3: a list built by a cycle in which a probe, the coordinator's or the
\* one of the batch query, reported unavailable has no stale device.
C3_UnavailableProbeNotStale ==
    (LogCycle /\ (cycle.probe = "unavailable"
                    \/ cycle.batch_probe = "unavailable"))
        => \A i \in 1..Len(data) : ~data[i].is_stale

C5_StaleIffPublishedMinutesExceed ==
    \A i \in 1..Len(data) :
        (data[i].last_seen.kind = "iso")
            => (data[i].is_stale
                  <=> data[i].minutes_since_seen > stale_threshold_minutes)

\* C5 amended: a record with a parsed last_seen is stale exactly when the
\* time elapsed since last_seen, before it is truncated to whole minutes,
\* exceeds the threshold; the published minutes_since_seen is the truncated
\* value, so a stale record has at least the threshold and a record with
\* more than the threshold is stale.
C5_StaleIffElapsedExceeds ==
    \A i \in 1..Len(data) :
        (data[i].last_seen.kind = "iso")
            => /\ data[i].is_stale
                    <=> (data[i].last_seen.age
                            > stale_threshold_minutes * TicksPerMinute)
               /\ data[i].minutes_since_seen * TicksPerMinute
                    <= data[i].last_seen.age
               /\ data[i].last_seen.age
                    < (data[i].minutes_since_seen + 1) * TicksPerMinute
               /\ data[i].is_stale
                    => data[i].minutes_since_seen >= stale_threshold_minutes
               /\ (data[i].minutes_since_seen > stale_threshold_minutes)
                    => data[i].is_stale

\* C5 witness: a stale device whose published minutes equal the threshold,
\* and a device seen exactly the threshold ago
C5_Witness ==
    /\ \E i \in 1..Len(data) :
          /\ data[i].last_seen.kind = "iso"
          /\ data[i].is_stale
          /\ data[i].minutes_since_seen = stale_threshold_minutes
    /\ \E i \in 1..Len(data) :
          /\ data[i].last_seen.kind = "iso"
          /\ ~data[i].is_stale
          /\ data[i].minutes_since_seen = stale_threshold_minutes

\* C6: with smart activity enabled, both probes available and a non-empty
\* log window, every published record carries the analyzer's assessment
\* and is stale exactly when it is not actively used.
C6_SmartActivityDecidesStale ==
    (LogCycle /\ dhcp_smart_activity /\ cycle.fetch = "ok"
        /\ cycle.has_entries)
        => \A i \in 1..Len(data) :
              /\ HasAssessment(data[i])
              /\ data[i].is_stale = ~IsActivelyUsed(data[i])

\* C7: handling the update of a successful poll that published the same
\* leases as the successful poll before it finds no new and no removed
\* device, keeps the snapshot and creates no sensor.
C7_RepeatedListNoDelta ==
    [][(Handling /\ repeated) =>
           /\ new_devices' = {}
           /\ removed_devices' = {}
           /\ known_devices' = known_devices
           /\ entities' = entities]_vars

\* C7 witness: the same devices were published twice in a row and the
\* second update has been handled
C7_Witness ==
    /\ repeated
    /\ ~listener_pending
    /\ pc = "idle"
    /\ data # <<>>

\* C8: handling the update of a successful poll reports as new the current
\* normalized MACs that are not in the snapshot, and as removed the MACs of
\* the snapshot that are not current, an empty list included.
C8_DeltaIsSetDifference ==
    [][(Handling /\ last_update_success) =>
           /\ new_devices' = CurrentDevices(data) \ known_devices
           /\ removed_devices' = known_devices \ CurrentDevices(data)]_vars

\* C9: once the update of a successful poll is handled, the snapshot is the
\* set of normalized MACs of that poll's list, an empty list included.
C9_SnapshotIsCurrentList ==
    (setup_done /\ last_update_success /\ ~listener_pending)
        => known_devices = CurrentDevices(data)

\* C10 as claimed: the sensors of a device reported as removed still find a
\* record of the device.
C10_RemovedStillRetrievable ==
    Handled =>
        \A mac \in removed_devices : GetDeviceData(data, mac) # NoRecord

\* C10 amended: a device reported as removed keeps its sensors, nothing
\* being deleted, and their lookup finds no record in the published list.
C10_RemovedKeepsEntitiesWithoutRecord ==
    Handled =>
        \A mac \in removed_devices :
            /\ mac \in entities
            /\ GetDeviceData(data, mac) = NoRecord

\* C10 witness: a device has been reported as removed
C10_Witness ==
    /\ Handled
    /\ removed_devices # {}
    /\ data # <<>>

\* C11: a reader of the published list sees the list of the previous
\* successful cycle until the current cycle completes, and every published
\* list is whole: data changes only in the step that ends a cycle, and in a
\* published list either no record was touched by the log pass (all at their
\* defaults) or every record was.
AtDefaults(record) ==
    /\ record.last_seen = NoneTs
    /\ record.is_stale = FALSE
    /\ record.minutes_since_seen = 0

LogPassed(record) ==
    \/ record.last_seen # NoneTs
    \/ record.is_stale /\ record.minutes_since_seen = NoActivityMinutes

WholeList(list) ==
    \/ \A i \in 1..Len(list) : AtDefaults(list[i])
    \/ \A i \in 1..Len(list) : LogPassed(list[i])

MaxLogs == 3

score_threshold == 25

analysis_window_minutes == 120

\* one point of score, and the largest score
Point == 1000
FullScore == 100 * Point


\* minutes east of UTC of the local time datetime.now() returns
UtcOffsets == {0 - 60, 0, 60}

Min(a, b) == IF a <= b THEN a ELSE b
Max(a, b) == IF a >= b THEN a ELSE b

RECURSIVE SumSeq(_)
SumSeq(s) == IF s = <<>> THEN 0 ELSE Head(s) + SumSeq(Tail(s))

\* long division: the quotient so far and the remainder, digits more
\* decimal digits to go
RECURSIVE LongDiv(_, _, _, _)
LongDiv(quotient, remainder, r, digits) ==
    IF digits = 0 THEN quotient
    ELSE LongDiv(quotient * 10 + (remainder * 10) \div r,
                 (remainder * 10) % r, r, digits - 1)

\* floor(q * 10^digits / r)
ScaledDiv(q, r, digits) == LongDiv(q \div r, q % r, r, digits)

\* floor of the square root, by bisection of lo..hi
RECURSIVE IsqrtIn(_, _, _)
IsqrtIn(n, lo, hi) ==
    IF lo >= hi THEN lo
    ELSE LET mid == (lo + hi + 1) \div 2
         IN  IF mid * mid <= n THEN IsqrtIn(n, mid, hi)
             ELSE IsqrtIn(n, lo, mid - 1)

Isqrt(n) == IsqrtIn(n, 0, Min(n, 40000))

\* PROTOCOL_WEIGHTS.get(protocol, 0.5), in tenths
ProtocolWeight(protocol) ==
    CASE protocol = "UDP" -> 3
      [] protocol = "TCP" -> 10
      [] protocol = "HTTPS" -> 12
      [] protocol = "HTTP" -> 8
      [] OTHER -> 5

\* QUERY_TYPE_WEIGHTS.get(query_type, 0.5), in tenths
QueryTypeWeight(query_type) ==
    CASE query_type \in {"A", "AAAA"} -> 10
      [] query_type = "CNAME" -> 8
      [] query_type = "MX" -> 6
      [] query_type = "TXT" -> 5
      [] query_type = "SRV" -> 4
      [] query_type = "PTR" -> 3
      [] query_type \in {"SOA", "NS"} -> 2
      [] OTHER -> 5

\* a name that contains one of BACKGROUND_DOMAINS ('time.'), and one that
\* contains none and matches no automated pattern
BackgroundName == "time.windows.com"
UserName == "example.com"

\* elapsed time of the regular log entries, in ticks before now
RegularAges == {0, 40 * TicksPerMinute + 1, 80 * TicksPerMinute + 1}

\* protocol and question name of the regular log entries
Traffic == {<<"UDP", BackgroundName>>, <<"UDP", UserName>>,
            <<"TCP", BackgroundName>>, <<"HTTPS", UserName>>}

LogEntry(ip, timestamp, protocol, name) ==
    [clientIpAddress |-> ip, timestamp |-> timestamp, protocol |-> protocol,
     question |-> [name |-> name, type |-> "A"]]

\* the entries of a DNS log: regular traffic of the first address, an entry
\* one tick older than the analysis window, an entry whose timestamp does
\* not parse, and an entry with "protocol": null for each address
AnalyzerEntries ==
    {LogEntry("10.0.0.1", IsoTs(a), t[1], t[2]) :
         a \in RegularAges, t \in Traffic}
    \cup {LogEntry("10.0.0.1",
                   IsoTs(analysis_window_minutes * TicksPerMinute + 1),
                   "TCP", UserName),
          LogEntry("10.0.0.1", BadTs, "TCP", UserName)}
    \cup {LogEntry(ip, IsoTs(0), NoneValue, UserName) : ip \in LeaseIps}

AnalyzerLogs == SeqUpTo(AnalyzerEntries, MaxLogs)

\* the entry's UTC instant lies within the analysis window before now
WithinWindow(timestamp) ==
    /\ timestamp.kind = "iso"
    /\ timestamp.age <= analysis_window_minutes * TicksPerMinute

\* log_time.replace(tzinfo=None) >= datetime.now() - window: the UTC wall
\* time of the entry against the local wall time of the process
PassesCutoff(timestamp, utc_offset) ==
    /\ timestamp.kind = "iso"
    /\ timestamp.age <=
           (analysis_window_minutes - utc_offset) * TicksPerMinute

FilterDeviceLogs(dns_logs, ip_address, utc_offset) ==
    LET Keep(log) ==
            /\ log.clientIpAddress = ip_address
            /\ PassesCutoff(log.timestamp, utc_offset)
    IN  SelectSeq(dns_logs, Keep)

IsBackgroundQuery(log) ==
    \/ log.question.name = BackgroundName
    \/ QueryTypeWeight(log.question.type) <= 4

\* user_queries of the counting loop
UserQueries(device_logs) ==
    Cardinality({i \in 1..Len(device_logs) :
                     ~IsBackgroundQuery(device_logs[i])})

BackgroundScore(device_logs) ==
    Min((UserQueries(device_logs) * FullScore) \div Len(device_logs),
        FullScore)

\* a protocol score without the cap
ProtocolScoreUncapped(device_logs) ==
    LET weights == [i \in 1..Len(device_logs) |->
                        ProtocolWeight(device_logs[i].protocol)]
    IN  (SumSeq(weights) * 10 * Point) \div Len(device_logs)

\* min(average weight * 100, 100)
ProtocolScore(device_logs) ==
    LET weights == [i \in 1..Len(device_logs) |->
                        ProtocolWeight(device_logs[i].protocol)]
    IN  Min((SumSeq(weights) * 10 * Point) \div Len(device_logs), FullScore)

\* (min(domains / 10, 1) + min(types / 5, 1)) / 2 * 100
DiversityScore(device_logs) ==
    LET domains == {device_logs[i].question.name :
                        i \in 1..Len(device_logs)}
        query_types == {device_logs[i].question.type :
                            i \in 1..Len(device_logs)}
    IN  Min(5 * Point * Min(Cardinality(domains), 10)
              + 10 * Point * Min(Cardinality(query_types), 5),
            FullScore)

AgesOf(device_logs) ==
    [i \in 1..Len(device_logs) |-> device_logs[i].timestamp.age]

SetMax(S) == CHOOSE x \in S : \A y \in S : y <= x
SetMin(S) == CHOOSE x \in S : \A y \in S : x <= y

\* _get_time_span_minutes, in ticks: at least one minute
TimeSpanTicks(device_logs) ==
    LET ages == {AgesOf(device_logs)[i] : i \in 1..Len(device_logs)}
    IN  IF Len(device_logs) < 2 THEN TicksPerMinute
        ELSE Max(SetMax(ages) - SetMin(ages), TicksPerMinute)

\* queries per minute is n * TicksPerMinute / span
FrequencyScore(device_logs) ==
    LET queries == Len(device_logs) * TicksPerMinute
        span == TimeSpanTicks(device_logs)
        score == IF span <= 2 * queries /\ queries <= 5 * span
                 THEN FullScore
                 ELSE IF 2 * queries < span
                 THEN (200 * Point * queries) \div span
                 ELSE Max(150 * Point - (10 * Point * queries) \div span,
                          10 * Point)
    IN  Min(Max(score, 0), FullScore)

\* the ages in descending order (the timestamps in ascending order)
RECURSIVE SortDescending(_)
SortDescending(ages) ==
    IF ages = <<>> THEN <<>>
    ELSE LET top == SetMax({ages[i] : i \in 1..Len(ages)})
             at == CHOOSE i \in 1..Len(ages) : ages[i] = top
         IN  <<top>> \o SortDescending(
                 [i \in 1..(Len(ages) - 1) |->
                      IF i < at THEN ages[i] ELSE ages[i + 1]])

\* the coefficient of variation cv of the intervals satisfies
\* cv^2 = CvSquaredNum / CvSquaredDen
Intervals(device_logs) ==
    LET sorted == SortDescending(AgesOf(device_logs))
    IN  [i \in 1..(Len(sorted) - 1) |-> sorted[i] - sorted[i + 1]]

CvSquaredNum(intervals) ==
    LET m == Len(intervals)
        total == SumSeq(intervals)
    IN  SumSeq([i \in 1..m |->
                    (m * intervals[i] - total) * (m * intervals[i] - total)])

CvSquaredDen(intervals) ==
    Len(intervals) * SumSeq(intervals) * SumSeq(intervals)

\* cv in units of 10^-digits
CvScaled(intervals, digits) ==
    Isqrt(ScaledDiv(CvSquaredNum(intervals), CvSquaredDen(intervals),
                    2 * digits))

TimingScore(device_logs) ==
    IF Len(device_logs) < 3 THEN 50 * Point
    ELSE LET intervals == Intervals(device_logs)
             num == CvSquaredNum(intervals)
             den == CvSquaredDen(intervals)
             score ==
                 IF SumSeq(intervals) = 0 THEN 0
                 ELSE IF 9 * den <= 100 * num /\ num <= 4 * den
                 THEN FullScore
                 ELSE IF 100 * num < 9 * den
                 THEN (CvScaled(intervals, 5) * 333) \div 100
                 ELSE Max(FullScore
                            - ((CvScaled(intervals, 3) - 2000) * 50 * Point)
                                  \div 1000,
                          10 * Point)
         IN  Min(Max(score, 0), FullScore)

\* the weighted sum, in hundred-thousandths of a point
ActivityScore(device_logs) ==
    30 * BackgroundScore(device_logs)
    + 25 * ProtocolScore(device_logs)
    + 20 * DiversityScore(device_logs)
    + 15 * FrequencyScore(device_logs)
    + 10 * TimingScore(device_logs)

\* round(x, 1) of a score in thousandths: the result in tenths of a point
RoundTenths(score) == (score + 50) \div 100

\* is_actively_used of a coordinator that would compare the returned score
IsActiveAfterRounding(activity_score) ==
    RoundTenths(activity_score \div 100) >= 10 * score_threshold

\* activity_score >= self.score_threshold, on the unrounded score
IsActive(activity_score) == activity_score >= score_threshold * 100 * Point

\* the activity level _generate_analysis_summary starts with
AnalysisSummary(activity_score) ==
    IF activity_score >= 75 * 100 * Point THEN "High user activity"
    ELSE IF activity_score >= 50 * 100 * Point
    THEN "Moderate user activity"
    ELSE IF activity_score >= 25 * 100 * Point THEN "Low user activity"
    ELSE "Mostly background traffic"

NoActivityFound ==
    [outcome |-> "return", activity_score |-> 0,
     is_actively_used |-> FALSE, total_queries |-> 0,
     analysis_summary |-> "No DNS activity found"]

\* a call that ends in an exception
Raised == [outcome |-> "raise"]

\* log.get('protocol', 'UDP').upper() of a null protocol
Raises(device_logs) ==
    \E i \in 1..Len(device_logs) : device_logs[i].protocol = NoneValue

\* SmartActivityAnalyzer.analyze_device_activity; the scores returned are
\* in tenths of a point
AnalyzeDeviceActivity(dns_logs, ip_address, utc_offset) ==
    LET device_logs == FilterDeviceLogs(dns_logs, ip_address, utc_offset)
    IN  IF device_logs = <<>> THEN NoActivityFound
        ELSE IF Raises(device_logs) THEN Raised
        ELSE [outcome |-> "return",
              activity_score |->
                  RoundTenths(ActivityScore(device_logs) \div 100),
              is_actively_used |-> IsActive(ActivityScore(device_logs)),
              total_queries |-> Len(device_logs),
              analysis_summary |->
                  AnalysisSummary(ActivityScore(device_logs)),
              score_breakdown |->
                  [background_score |->
                       RoundTenths(BackgroundScore(device_logs)),
                   protocol_score |->
                       RoundTenths(ProtocolScore(device_logs)),
                   diversity_score |->
                       RoundTenths(DiversityScore(device_logs)),
                   frequency_score |->
                       RoundTenths(FrequencyScore(device_logs)),
                   timing_score |->
                       RoundTenths(TimingScore(device_logs))]]

\* one call of analyze_device_activity, the coordinator standing by
AnalyzerInit ==
    /\ log_tracking = FALSE
    /\ NotPolled
    /\ \E dns_logs \in AnalyzerLogs, ip \in LeaseIps, offset \in UtcOffsets :
           call = [fn |-> "analyze_device_activity", dns_logs |-> dns_logs,
                   ip_address |-> ip, utc_offset |-> offset]
    /\ ret = NoReturn

Analyze ==
    /\ call.fn = "analyze_device_activity"
    /\ ret = NoReturn
    /\ ret' = AnalyzeDeviceActivity(call.dns_logs, call.ip_address,
                                    call.utc_offset)
    /\ UNCHANGED <<call, coordinator_vars>>

AnalyzerNext == Analyze

AnalyzerSpec == AnalyzerInit /\ [][AnalyzerNext]_vars

\* the entries of the call that are of the analysed address and at most a
\* window old
RecentLogs ==
    LET Recent(log) ==
            /\ log.clientIpAddress = call.ip_address
            /\ WithinWindow(log.timestamp)
    IN  SelectSeq(call.dns_logs, Recent)

\* the entries the call analysed
AnalysedLogs ==
    FilterDeviceLogs(call.dns_logs, call.ip_address, call.utc_offset)

Returned == ret.outcome = "return"

\* C12: whenever no entry of the log has the analysed address together
\* with a timestamp that parses and lies within the analysis window before
\* now, analyze_device_activity returns the zero assessment "No DNS activity
\* found".
C12_NoRecentActivityIsZero ==
    (call.fn = "analyze_device_activity" /\ ret # NoReturn
         /\ RecentLogs = <<>>)
        => ret = NoActivityFound

\* C13: in every returned assessment, is_actively_used is True exactly when
\* the returned one-decimal activity_score is at least the threshold.
C13_ActiveIffReturnedScoreReaches ==
    (call.fn = "analyze_device_activity" /\ Returned)
        => (ret.is_actively_used
                <=> ret.activity_score >= 10 * score_threshold)

\* C13 (amended): is_actively_used is True exactly when the unrounded
\* weighted score is at least the threshold; the returned score is that
\* score rounded to one decimal, so an actively used device has a returned
\* score of at least the threshold and a returned score above the threshold
\* means actively used.
C13_ActiveIffUnroundedScoreReaches ==
    (call.fn = "analyze_device_activity" /\ Returned
         /\ AnalysedLogs # <<>>)
        => /\ ret.is_actively_used
                  <=> ActivityScore(AnalysedLogs)
                          >= score_threshold * 100 * Point
           /\ ret.is_actively_used
                  => ret.activity_score >= 10 * score_threshold
           /\ ret.activity_score > 10 * score_threshold
                  => ret.is_actively_used

\* an assessment whose unrounded score lies just below the threshold and is
\* returned as the threshold itself
C13_Witness ==
    /\ call.fn = "analyze_device_activity"
    /\ Returned
    /\ AnalysedLogs # <<>>
    /\ ret.activity_score = 10 * score_threshold
    /\ ~ret.is_actively_used

\* C14: the five sub-scores and the activity_score of every returned
\* assessment lie between 0 and 100 inclusive.
InRange(tenths) == 0 <= tenths /\ tenths <= 1000

MaxBatchLogs == 2

MaxBatchIps == 2

\* results = {}
EmptyResults == [ip \in {} |-> NoActivityFound]

\* results[ip_address] = analysis
Put(results, ip_address, analysis) ==
    [ip \in DOMAIN results \cup {ip_address} |->
         IF ip = ip_address THEN analysis ELSE results[ip]]

\* the zero assessment of the except branch; its summary starts with
\* "Analysis error"
AnalysisError ==
    [outcome |-> "return", activity_score |-> 0,
     is_actively_used |-> FALSE, total_queries |-> 0,
     analysis_summary |-> "Analysis error"]

\* a batch that would skip the address whose analysis raised
OnAnalysisErrorSkipping(results, ip_address) == results

\* except Exception: results[ip_address] = the zero assessment
OnAnalysisError(results, ip_address) ==
    Put(results, ip_address, AnalysisError)

\* one call of analyze_batch_device_activity, the coordinator standing by
BatchInit ==
    /\ log_tracking = FALSE
    /\ NotPolled
    /\ \E dns_logs \in SeqUpTo(AnalyzerEntries, MaxBatchLogs),
          device_ips \in SeqUpTo(LeaseIps, MaxBatchIps),
          offset \in UtcOffsets :
           call = [fn |-> "analyze_batch_device_activity",
                   dns_logs |-> dns_logs, device_ips |-> device_ips,
                   utc_offset |-> offset]
    /\ ret = [outcome |-> "running", i |-> 1, results |-> EmptyResults]

\* one pass of the loop over device_ips
BatchAnalyzeNext ==
    /\ call.fn = "analyze_batch_device_activity"
    /\ ret.outcome = "running"
    /\ ret.i <= Len(call.device_ips)
    /\ LET ip_address == call.device_ips[ret.i]
           analysis == AnalyzeDeviceActivity(call.dns_logs, ip_address,
                                             call.utc_offset)
       IN  ret' = [ret EXCEPT
                       !.i = @ + 1,
                       !.results =
                           IF analysis = Raised
                           THEN OnAnalysisError(@, ip_address)
                           ELSE Put(@, ip_address, analysis)]
    /\ UNCHANGED <<call, coordinator_vars>>

\* the loop is over: the summary is logged and results returned
BatchReturn ==
    /\ call.fn = "analyze_batch_device_activity"
    /\ ret.outcome = "running"
    /\ ret.i > Len(call.device_ips)
    /\ ret' = [ret EXCEPT !.outcome = "return"]
    /\ UNCHANGED <<call, coordinator_vars>>

BatchNext ==
    \/ BatchAnalyzeNext
    \/ BatchReturn

BatchSpec == BatchInit /\ [][BatchNext]_vars

\* the analysis of one address of the batch on its own, at the same time
AnalysedAlone(ip_address) ==
    AnalyzeDeviceActivity(call.dns_logs, ip_address, call.utc_offset)

BatchReturned ==
    call.fn = "analyze_batch_device_activity" /\ ret.outcome = "return"

\* C15: the batch returns exactly one result per requested address; an
\* address whose analysis raises gets the zero assessment with an error
\* summary, and every other address the result of analysing it alone
\* against the same logs.
C15_BatchIsolatesFailures ==
    BatchReturned
        => /\ DOMAIN ret.results =
                  {call.device_ips[i] : i \in 1..Len(call.device_ips)}
           /\ \A ip \in DOMAIN ret.results :
                  ret.results[ip] =
                      IF AnalysedAlone(ip) = Raised THEN AnalysisError
                      ELSE AnalysedAlone(ip)

\* a batch has returned in which the analysis of the first address raised
\* and the second address, analysed after it, has queries
C15_Witness ==
    /\ BatchReturned
    /\ Len(call.device_ips) = 2
    /\ AnalysedAlone(call.device_ips[1]) = Raised
    /\ ret.results[call.device_ips[1]] = AnalysisError
    /\ ret.results[call.device_ips[2]].total_queries > 0

(***************************************************************************)
(* utils.normalize_mac_address on its own                                   *)
(***************************************************************************)
MaxMacLen == 18

\* device A's digits in upper and in mixed case
DigitsAUpper == <<"A", "A", "B", "B", "C", "C", "D", "D", "E", "E", "0", "1">>
DigitsAMixed == <<"a", "A", "B", "b", "c", "C", "D", "d", "e", "E", "0", "1">>

\* the canonical form of device A and of device B, written out
CanonicalA ==
    <<"A", "A", ":", "B", "B", ":", "C", "C", ":", "D", "D", ":",
      "E", "E", ":", "0", "1">>
CanonicalB ==
    <<"A", "A", ":", "B", "B", ":", "C", "C", ":", "D", "D", ":",
      "E", "E", ":", "0", "2">>

\* the hyphen-separated, colon-separated and separator-free spelling of
\* twelve digits
Spellings(d) == {Separated(d, "-"), Separated(d, ":"), d}

SpellingsOfA ==
    Spellings(DigitsA) \cup Spellings(DigitsAUpper)
        \cup Spellings(DigitsAMixed)

SpellingsOfB == Spellings(DigitsB)

\* what may stand at every third place of a string: a hyphen, a colon or
\* a hex digit
Fillers == {"-", ":", "f"}

\* the string of MaxMacLen characters that has device A's digits, over and
\* over, and fillers[j] at place 3j
Filled(fillers) ==
    [i \in 1..MaxMacLen |->
         IF i % 3 = 0 THEN fillers[i \div 3]
         ELSE DigitsA[((i - (i \div 3) - 1) % 12) + 1]]

\* strings of any length up to MaxMacLen with separators in any of these
\* places
OddStrings ==
    {SubSeq(Filled(fillers), 1, n) :
         fillers \in [1..(MaxMacLen \div 3) -> Fillers], n \in 0..MaxMacLen}

MacInputs == SpellingsOfA \cup SpellingsOfB \cup OddStrings

\* normalize_mac_address is called on a string and then on its own result
MacInit ==
    /\ log_tracking = FALSE
    /\ NotPolled
    /\ \E mac_address \in MacInputs :
           call = [fn |-> "normalize_mac_address",
                   mac_address |-> mac_address]
    /\ ret = NoReturn

Normalize ==
    /\ call.fn = "normalize_mac_address"
    /\ ret = NoReturn
    /\ ret' = [outcome |-> "return", times |-> 1,
               value |-> normalize_mac_address(call.mac_address)]
    /\ UNCHANGED <<call, coordinator_vars>>

NormalizeAgain ==
    /\ call.fn = "normalize_mac_address"
    /\ ret.outcome = "return"
    /\ ret.times = 1
    /\ ret' = [outcome |-> "return", times |-> 2,
               value |-> normalize_mac_address(ret.value),
               first |-> ret.value]
    /\ UNCHANGED <<call, coordinator_vars>>

MacNext ==
    \/ Normalize
    \/ NormalizeAgain

MacSpec == MacInit /\ [][MacNext]_vars

Normalized == call.fn = "normalize_mac_address" /\ ret.outcome = "return"

\* C16: every hyphen-separated, colon-separated and separator-free spelling
\* of a device's twelve hex digits, in lower, upper or mixed case, is
\* normalized to the device's canonical upper-case colon-separated form.
C16_SpellingsNormalizeToCanonical ==
    (Normalized /\ ret.times = 1)
        => /\ call.mac_address \in SpellingsOfA => ret.value = CanonicalA
           /\ call.mac_address \in SpellingsOfB => ret.value = CanonicalB

\* the separator-free mixed-case spelling of device A has been normalized
C16_Witness ==
    /\ Normalized
    /\ call.mac_address = DigitsAMixed
    /\ ret.value = CanonicalA

\* C17: normalizing the result of a normalization changes nothing, for
\* every input string.
C17_Idempotent ==
    (Normalized /\ ret.times = 2) => ret.value = ret.first

\* C18: every record of the published list has its mac_address in the
\* canonical form normalize_mac_address gives, and every diagnostic sensor
\* of a device of the list finds the device's record by its normalized MAC.
C18_PublishedMacIsCanonical ==
    /\ \A i \in 1..Len(data) :
           data[i].mac_address = normalize_mac_address(data[i].mac_address)
    /\ Handled
           => \A mac \in entities \cap CurrentDevices(data) :
                  GetDeviceData(data, mac) # NoRecord

(***************************************************************************)
(* utils.should_track_ip on its own                                         *)
(***************************************************************************)
MaxRangeEntries == 2

\* what the configuration may put between two delimiters: single
\* addresses (bare and padded), start-end ranges (in order, reversed,
\* spaced), CIDR blocks (/30, /31, /32, an impossible /33), text that is no
\* address, nothing, a blank, and text that holds another delimiter
RangeChunks ==
    {<<"10.0.0.1">>, <<"10.0.0.2">>, <<" ", "10.0.0.1", " ">>,
     <<"10.0.0.1", "-", "10.0.0.3">>, <<"10.0.0.3", "-", "10.0.0.1">>,
     <<"10.0.0.2", " ", "-", " ", "10.0.0.3">>,
     <<"10.0.0.0", "/", "30">>, <<"10.0.0.3", "/", "31">>,
     <<"10.0.0.1", "/", "32">>, <<"10.0.0.1", "/", "33">>,
     <<"10.0.0.1", "-", "10.0.0.2", "/", "31">>,
     <<"x">>, <<>>, <<" ">>, <<"10.0.0.2", ";", "10.0.0.3">>}

RangeDelimiters == {",", ";", "\n"}

\* chunks[1] delimiters[1] chunks[2] ... chunks[k]
RECURSIVE Joined(_, _)
Joined(chunks, delimiters) ==
    IF Len(chunks) = 1 THEN chunks[1]
    ELSE chunks[1] \o <<delimiters[1]>>
             \o Joined(Tail(chunks), Tail(delimiters))

\* the ranges strings: the empty one, and up to MaxRangeEntries chunks with
\* any delimiter between two of them
RangeStrings ==
    {<<>>} \cup
    UNION {{Joined(chunks, delimiters) :
                chunks \in [1..k -> RangeChunks],
                delimiters \in [1..(k - 1) -> RangeDelimiters]} :
               k \in 1..MaxRangeEntries}

FilterModes == {"disabled", "include", "exclude", "unknown_mode"}

\* the addresses asked about: in some ranges, in none, and no address
TrackedIps == LeaseIps \cup {"10.0.0.3", "10.0.0.4", "invalid.ip"}

FilterInit ==
    /\ log_tracking = FALSE
    /\ NotPolled
    /\ \E ip_address \in TrackedIps, filter_mode \in FilterModes,
          ip_ranges_str \in RangeStrings :
           call = [fn |-> "should_track_ip", ip_address |-> ip_address,
                   filter_mode |-> filter_mode,
                   ip_ranges_str |-> ip_ranges_str]
    /\ ret = NoReturn

ShouldTrackIp ==
    /\ call.fn = "should_track_ip"
    /\ ret = NoReturn
    /\ ret' = [outcome |-> "return",
               value |-> should_track_ip(call.ip_address, call.filter_mode,
                                         call.ip_ranges_str)]
    /\ UNCHANGED <<call, coordinator_vars>>

FilterNext == ShouldTrackIp

FilterSpec == FilterInit /\ [][FilterNext]_vars

\* should_track_ip has returned for a valid IPv4 address
TrackDecided ==
    /\ call.fn = "should_track_ip"
    /\ ret.outcome = "return"
    /\ ValidIPv4(call.ip_address)

\* C19: in include mode a valid IPv4 address is tracked exactly when it is
\* a member of parse_ip_ranges(ranges), for every ranges string, the empty
\* one included.
C19_IncludeIsMembership ==
    (TrackDecided /\ call.filter_mode = "include")
        => (ret.value
                <=> call.ip_address \in parse_ip_ranges(call.ip_ranges_str))

\* C20: for a valid IPv4 address and a non-empty ranges string the exclude
\* mode answers the negation of what the include mode answers on the same
\* inputs, and the disabled mode answers True whatever the ranges are.
C20_ExcludeNegatesInclude ==
    TrackDecided
        => /\ (call.filter_mode = "exclude" /\ call.ip_ranges_str # <<>>)
                  => ret.value
                         = ~should_track_ip(call.ip_address, "include",
                                            call.ip_ranges_str)
           /\ call.filter_mode = "disabled" => ret.value

\* an address inside a configured /30 block has been refused in exclude mode
C20_Witness ==
    /\ TrackDecided
    /\ call.filter_mode = "exclude"
    /\ call.ip_ranges_str = <<"x", ",", "10.0.0.0", "/", "30">>
    /\ call.ip_address = "10.0.0.2"
    /\ ret.value = FALSE

\* C21: in include and in exclude mode should_track_ip returns False for
\* every ip_address that is no valid IPv4 address, whatever the ranges
\* string is.
C21_MalformedFailsClosed ==
    (/\ call.fn = "should_track_ip"
     /\ ret.outcome = "return"
     /\ ~ValidIPv4(call.ip_address)
     /\ call.filter_mode \in {"include", "exclude"})
        => ret.value = FALSE

(***************************************************************************)
(* utils.parse_ip_ranges on its own                                         *)
(***************************************************************************)
ParseInit ==
    /\ log_tracking = FALSE
    /\ NotPolled
    /\ \E ip_ranges_str \in RangeStrings :
           call = [fn |-> "parse_ip_ranges", ip_ranges_str |-> ip_ranges_str]
    /\ ret = NoReturn

ParseRanges ==
    /\ call.fn = "parse_ip_ranges"
    /\ ret = NoReturn
    /\ ret' = [outcome |-> "return",
               value |-> parse_ip_ranges(call.ip_ranges_str)]
    /\ UNCHANGED <<call, coordinator_vars>>

ParseNext == ParseRanges

ParseSpec == ParseInit /\ [][ParseNext]_vars

Parsed == call.fn = "parse_ip_ranges" /\ ret.outcome = "return"

\* the entries of a ranges string when every comma, semicolon and newline
\* separates two entries
RECURSIVE EntriesOf(_)
EntriesOf(s) ==
    IF \A i \in 1..Len(s) : s[i] \notin RangeDelimiters THEN <<s>>
    ELSE LET at == CHOOSE i \in 1..Len(s) :
                       /\ s[i] \in RangeDelimiters
                       /\ \A j \in 1..(i - 1) : s[j] \notin RangeDelimiters
         IN  <<SubSeq(s, 1, at - 1)>> \o EntriesOf(SubSeq(s, at + 1, Len(s)))

\* the addresses the entries of a ranges string denote, one entry at a time
DenotedBy(s) ==
    UNION {ParseRangeEntry(Strip(EntriesOf(s)[i])) :
               i \in 1..Len(EntriesOf(s))}

\* C22: for every ranges string, one that mixes commas, semicolons and
\* newlines included, parse_ip_ranges returns the union of the addresses
\* its entries denote; an invalid or inverted entry contributes nothing.
C22_EveryDelimiterSeparates ==
    Parsed => ret.value = DenotedBy(call.ip_ranges_str)

(***************************************************************************)
(* The loop over the raw leases of _async_update_data on its own            *)
(***************************************************************************)
\* lease.get("type"): the two documented types, empty, null, another one
LeaseTypes == {"Dynamic", "Reserved", "", NoneValue, "Unknown"}

\* one entry of response.leases with its type; the address may be missing
\* or malformed, the hardware address may be missing
TypedLeases ==
    [address : RawIps \cup {"invalid.ip"}, hardwareAddress : RawMacs,
     type : LeaseTypes]

\* the filter options of the coordinator: none, an include and an exclude
\* filter on one address, an include filter without ranges
FilterOptions ==
    {<<"disabled", <<>>>>, <<"include", <<"10.0.0.1">>>>,
     <<"exclude", <<"10.0.0.1">>>>, <<"include", <<>>>>}

LeaseInit ==
    /\ log_tracking = FALSE
    /\ NotPolled
    /\ \E leases \in SeqUpTo(TypedLeases, MaxLeases),
          options \in FilterOptions :
           call = [fn |-> "process_leases", leases |-> leases,
                   filter_mode |-> options[1], ip_ranges_str |-> options[2]]
    /\ ret = NoReturn

ProcessRawLeases ==
    /\ call.fn = "process_leases"
    /\ ret = NoReturn
    /\ ret' = [outcome |-> "return",
               value |-> ProcessLeasesUnder(call.leases, call.filter_mode,
                                            call.ip_ranges_str)]
    /\ UNCHANGED <<call, coordinator_vars>>

LeaseNext == ProcessRawLeases

LeaseSpec == LeaseInit /\ [][LeaseNext]_vars

LeasesProcessed == call.fn = "process_leases" /\ ret.outcome = "return"

\* the raw leases that have an address and a hardware address and whose
\* address passes the IP filter, in the order of the server
QualifyingLeases ==
    LET Qualifies(lease) ==
            /\ lease.address # NoIp
            /\ lease.hardwareAddress # NoMac
            /\ should_track_ip(lease.address, call.filter_mode,
                               call.ip_ranges_str)
    IN  SelectSeq(call.leases, Qualifies)

\* C23: the processed list has, in the order of the server, exactly one
\* record for each raw lease that has an address and a hardware address
\* and passes the IP filter, whatever the type of the lease is; the others
\* are skipped.
C23_OneRecordPerQualifyingLease ==
    LeasesProcessed
        => /\ Len(ret.value) = Len(QualifyingLeases)
           /\ \A i \in 1..Len(ret.value) :
                  /\ ret.value[i].ip_address = QualifyingLeases[i].address
                  /\ ret.value[i].mac_address
                         = Upper(QualifyingLeases[i].hardwareAddress)

\* a lease of an unknown type was kept and a lease without a hardware
\* address after it was skipped, under an include filter
C23_Witness ==
    /\ LeasesProcessed
    /\ call.filter_mode = "include"
    /\ call.ip_ranges_str # <<>>
    /\ Len(call.leases) = 2
    /\ call.leases[1].type = "Unknown"
    /\ call.leases[2].hardwareAddress = NoMac
    /\ Len(ret.value) = 1
    /\ ret.value[1].ip_address = call.leases[1].address

(***************************************************************************)
(* The entry limit of get_last_seen_for_multiple_ips                        *)
(***************************************************************************)
MaxDevices == 450

base_limit == 2000

\* max(1, len(ip_addresses) // 10)
device_multiplier(devices) == Max(1, devices \div 10)

\* a limit without its cap
dynamic_limit_uncapped(devices) ==
    base_limit + (device_multiplier(devices) * 200)

\* min(10000, base_limit + (device_multiplier * 200))
dynamic_limit(devices) ==
    Min(10000, base_limit + (device_multiplier(devices) * 200))

\* the limit is computed for a non-empty list of addresses (an empty one
\* returns before); the list is then taken one address longer
LimitInit ==
    /\ log_tracking = FALSE
    /\ NotPolled
    /\ call = [fn |-> "get_last_seen_for_multiple_ips", devices |-> 1]
    /\ ret = [outcome |-> "limit", value |-> dynamic_limit(1)]

OneMoreDevice ==
    /\ call.fn = "get_last_seen_for_multiple_ips"
    /\ call.devices < MaxDevices
    /\ call' = [call EXCEPT !.devices = @ + 1]
    /\ ret' = [outcome |-> "limit", value |-> dynamic_limit(call.devices + 1)]
    /\ UNCHANGED coordinator_vars

LimitNext == OneMoreDevice

LimitSpec == LimitInit /\ [][LimitNext]_vars

\* C24 as stated: the limit for n devices is
\* min(10000, 2000 + 200 * floor(n / 10)), that is 2000 for fewer than 10
\* devices.
C24_LimitIsBasePlusTens ==
    (call.fn = "get_last_seen_for_multiple_ips" /\ ret.outcome = "limit")
        => ret.value = Min(10000, 2000 + (200 * (call.devices \div 10)))

\* C24: the limit for n devices is 2200 for fewer than 20 devices and
\* 2000 + 200 * floor(n / 10) from 10 devices on, never above 10000, and it
\* does not decrease when a device is added.
C24_LimitGrowsByTensFromOneStep ==
    /\ [](/\ call.devices < 20 => ret.value = 2200
          /\ (call.devices >= 10 /\ call.devices < 400)
                 => ret.value = 2000 + (200 * (call.devices \div 10))
          /\ call.devices >= 400 => ret.value = 10000
          /\ ret.value <= 10000)
    /\ [][ret'.value >= ret.value]_vars

\* the limit has reached its cap
C24_Witness ==
    /\ call.fn = "get_last_seen_for_multiple_ips"
    /\ call.devices > 400
    /\ ret.value = 10000

(***************************************************************************)
(* TechnitiumDHCPDeviceTracker                                              *)
(***************************************************************************)
\* self._mac_address of a tracker entity: lease_data.get("mac_address") of
\* a published record
TrackerMacs == {Upper(mac) : mac \in RawMacs \ {NoMac}}

\* TechnitiumDHCPDeviceTracker.is_connected of the entity whose MAC is
\* mac_address: the first lease with that MAC decides (is_stale of a
\* published record is never None)
is_connected(coordinator_data, mac_address) ==
    IF coordinator_data = <<>> THEN FALSE
    ELSE IF \E i \in 1..Len(coordinator_data) :
                coordinator_data[i].mac_address = mac_address
         THEN LET lease ==
                      coordinator_data[
                          CHOOSE i \in 1..Len(coordinator_data) :
                              /\ coordinator_data[i].mac_address = mac_address
                              /\ \A j \in 1..(i - 1) :
                                     coordinator_data[j].mac_address
                                         # mac_address]
              IN  ~lease.is_stale
    ELSE FALSE

\* C25: a device tracker entity is connected exactly when the published
\* list holds a lease with its MAC that is not stale.
C25_ConnectedIffFreshLease ==
    \A mac_address \in TrackerMacs :
        is_connected(data, mac_address)
            <=> \E i \in 1..Len(data) :
                    /\ data[i].mac_address = mac_address
                    /\ ~data[i].is_stale

(***************************************************************************)
(* The statistics coordinator: TechnitiumDNSCoordinator._async_update_data  *)
(***************************************************************************)
\* the clock runs in quarters of an hour up to MaxTime
MaxTime == 10

\* UPDATE_CHECK_INTERVAL = timedelta(hours=1), in quarters of an hour
UPDATE_CHECK_INTERVAL == 4

\* the time between two cycles, in quarters of an hour
Elapsed == {1, 2, 3}

\* should_check_updates at current_time
should_check_updates(current_time) ==
    \/ stats.last_update_check = NeverChecked
    \/ current_time - stats.last_update_check >= UPDATE_CHECK_INTERVAL

\* the cycle raised UpdateFailed: the coordinator keeps its data
StatsCycleFails(current_time, went) ==
    /\ stats' = [stats EXCEPT !.now = current_time,
                              !.last_update_success = FALSE,
                              !.went = went]
    /\ UNCHANGED <<dhcp_vars, call_vars>>

\* check_update raised: the except clause binds no Technitiumdns_update_info,
\* so building the data dict raises UnboundLocalError, which the outer
\* except clause turns into UpdateFailed
UpdateCheckFailure(current_time) ==
    StatsCycleFails(current_time, [statistics |-> "ok", check |-> "raise"])

\* await self.api.get_statistics(...) raised
StatisticsFail ==
    \E elapsed \in Elapsed :
        /\ stats.now + elapsed <= MaxTime
        /\ StatsCycleFails(stats.now + elapsed,
                           [statistics |-> "raise", check |-> "none"])

\* the statistics arrived, the check is due and check_update returned
UpdateCheckSucceeds ==
    \E elapsed \in Elapsed, available \in BOOLEAN :
        /\ stats.now + elapsed <= MaxTime
        /\ should_check_updates(stats.now + elapsed)
        /\ stats' = [stats EXCEPT
                         !.now = @ + elapsed,
                         !.cached_update_info = UpdateInfo(available),
                         !.last_update_check = stats.now + elapsed,
                         !.data = StatsData(available),
                         !.last_update_success = TRUE,
                         !.went = [statistics |-> "ok", check |-> "ok"]]
        /\ UNCHANGED <<dhcp_vars, call_vars>>

\* the statistics arrived, the check is due and check_update raised
UpdateCheckFails ==
    \E elapsed \in Elapsed :
        /\ stats.now + elapsed <= MaxTime
        /\ should_check_updates(stats.now + elapsed)
        /\ UpdateCheckFailure(stats.now + elapsed)

\* the statistics arrived and the check is not due: the cached update info,
\* or updateAvailable False when there is none
UpdateCheckSkipped ==
    \E elapsed \in Elapsed :
        /\ stats.now + elapsed <= MaxTime
        /\ ~should_check_updates(stats.now + elapsed)
        /\ stats' = [stats EXCEPT
                         !.now = @ + elapsed,
                         !.data = StatsData(stats.cached_update_info
                                                .updateAvailable),
                         !.last_update_success = TRUE,
                         !.went = [statistics |-> "ok", check |-> "none"]]
        /\ UNCHANGED <<dhcp_vars, call_vars>>

StatsInit ==
    /\ log_tracking = FALSE
    /\ NotPolled
    /\ call = NoCall
    /\ ret = NoReturn

StatsNext ==
    \/ StatisticsFail
    \/ UpdateCheckSucceeds
    \/ UpdateCheckFails
    \/ UpdateCheckSkipped

StatsSpec == StatsInit /\ [][StatsNext]_vars

\* C26: a cycle whose statistics fetch succeeded and whose update check
\* failed still succeeds, publishes update_available from the update info
\* cached before (False when none is cached) and leaves the last-check
\* time as it was; and a check is issued only when none succeeded before
\* or UPDATE_CHECK_INTERVAL has elapsed since the last one that did.
C26_FailedCheckUsesCache ==
    [][/\ (stats'.went.statistics = "ok" /\ stats'.went.check = "raise")
              => /\ stats'.last_update_success
                 /\ stats'.data
                        = StatsData(stats.cached_update_info.updateAvailable)
                 /\ stats'.last_update_check = stats.last_update_check
       /\ stats'.went.check # "none"
              => \/ stats.last_update_check = NeverChecked
                 \/ stats'.now - stats.last_update_check
                        >= UPDATE_CHECK_INTERVAL]_vars

(***************************************************************************)
(* TechnitiumDNSApi.get_last_seen_for_multiple_ips on its own               *)
(***************************************************************************)
\* the function is called with some of the lease addresses, the probe
\* reports available, and the log query returns, fails or raises
LastSeenInit ==
    /\ log_tracking = FALSE
    /\ NotPolled
    /\ \E ip_addresses \in SUBSET LeaseIps, outcome \in LogOutcomes,
          entries \in LogLists :
           /\ (outcome # "ok") => (entries = <<>>)
           /\ call = [fn |-> "get_last_seen_for_multiple_ips",
                      ip_addresses |-> ip_addresses,
                      outcome |-> outcome, entries |-> entries]
    /\ ret = NoReturn

GetLastSeen ==
    /\ call.fn = "get_last_seen_for_multiple_ips"
    /\ ret = NoReturn
    /\ ret' = [outcome |-> "return",
               value |-> IF call.ip_addresses = {} THEN NoLastSeen
                         ELSE LastSeenTimes(call.outcome, call.entries,
                                            call.ip_addresses)]
    /\ UNCHANGED <<call, coordinator_vars>>

LastSeenNext == GetLastSeen

LastSeenSpec == LastSeenInit /\ [][LastSeenNext]_vars

\* C27: the result has a key for exactly the requested addresses that have
\* an entry in the response, and the timestamp of an address is the most
\* recent one of its entries, in whatever order the entries came.
C27_MostRecentOfEachIp ==
    (call.fn = "get_last_seen_for_multiple_ips" /\ ret.outcome = "return")
        => /\ DOMAIN ret.value
                  = {ip \in call.ip_addresses :
                         \E i \in 1..Len(call.entries) :
                             call.entries[i].clientIpAddress = ip}
           /\ \A ip \in DOMAIN ret.value :
                  /\ \E i \in 1..Len(call.entries) :
                         /\ call.entries[i].clientIpAddress = ip
                         /\ call.entries[i].timestamp = ret.value[ip]
                  /\ \A i \in 1..Len(call.entries) :
                         (/\ call.entries[i].clientIpAddress = ip
                          /\ call.entries[i].timestamp.kind = "iso"
                          /\ ret.value[ip].kind = "iso")
                             => call.entries[i].timestamp.age
                                    >= ret.value[ip].age

(***************************************************************************)
(* TechnitiumDNSApi.fetch_data                                              *)
(***************************************************************************)
\* retries = 3
retries == 3

\* the endpoints the integration requests
Endpoints ==
    {"api/dashboard/stats/get", "api/user/checkForUpdate",
     "api/dhcp/leases/list", "api/logs/query"}

\* what a request can meet: a payload with status "ok", a payload with
\* another status, an aiohttp.ClientError (raise_for_status included), an
\* asyncio.TimeoutError, any other exception (a body that is no JSON object)
Met == {"ok", "status_error", "client_error", "timeout", "other_error"}

\* a loop that would sleep and retry after every network error
AfterNetworkErrorRetrying(attempt) == "sleeping"

\* if attempt == retries - 1: raise, else: await asyncio.sleep(5)
AfterNetworkError(attempt) ==
    IF attempt = retries - 1 THEN "raise" ELSE "sleeping"

\* except (aiohttp.ClientError, asyncio.TimeoutError)
IsNetworkError(met) == met \in {"client_error", "timeout"}

\* fetch_data is called and enters its loop with attempt 0
FetchInit ==
    /\ log_tracking = FALSE
    /\ NotPolled
    /\ \E endpoint \in Endpoints :
           call = [fn |-> "fetch_data", endpoint |-> endpoint]
    /\ ret = [outcome |-> "requesting", attempt |-> 0, requests |-> <<>>]

\* one pass of the loop body: session.get(...) under the 20 s timeout
Request ==
    /\ call.fn = "fetch_data"
    /\ ret.outcome = "requesting"
    /\ \E met \in Met :
           ret' = [ret EXCEPT
                       !.requests = Append(@, met),
                       !.outcome =
                           IF met = "ok" THEN "return"
                           ELSE IF IsNetworkError(met)
                                THEN AfterNetworkError(ret.attempt)
                           ELSE "raise"]
    /\ UNCHANGED <<call, coordinator_vars>>

\* await asyncio.sleep(5) returns and the loop takes the next attempt
Sleep ==
    /\ call.fn = "fetch_data"
    /\ ret.outcome = "sleeping"
    /\ ret' = [ret EXCEPT !.outcome = "requesting", !.attempt = @ + 1]
    /\ UNCHANGED <<call, coordinator_vars>>

FetchNext ==
    \/ Request
    \/ Sleep

FetchSpec == FetchInit /\ [][FetchNext]_vars

\* a request ends within its timeout and a sleep ends: the event loop
\* resumes the coroutine
FetchLiveSpec == FetchSpec /\ WF_vars(Request) /\ WF_vars(Sleep)

\* fetch_data has returned or raised
FetchDone == ret.outcome \in {"return", "raise"}

\* every request of the call but the last one met a network error
EarlierRequestsFailed ==
    \A i \in 1..(Len(ret.requests) - 1) : IsNetworkError(ret.requests[i])

\* C28: a call of fetch_data makes at most 3 requests, takes another one
\* only after a network or timeout error, returns only a payload of status
\* "ok", raises at once on another status and after the third network
\* error in a row, and always ends by returning or raising.
C28_FetchEndsWithinThreeAttempts ==
    /\ [](/\ Len(ret.requests) <= 3
          /\ EarlierRequestsFailed
          /\ ret.outcome = "return"
                 => ret.requests[Len(ret.requests)] = "ok"
          /\ (Len(ret.requests) > 0
                  /\ ret.requests[Len(ret.requests)] = "status_error")
                 => ret.outcome = "raise"
          /\ (Len(ret.requests) = 3 /\ IsNetworkError(ret.requests[3]))
                 => ret.outcome = "raise"
          /\ ret.outcome = "raise"
                 => \/ ~IsNetworkError(ret.requests[Len(ret.requests)])
                    \/ Len(ret.requests) = 3)
    /\ <>FetchDone

\* the third request in a row met a network error and fetch_data raised
C28_Witness ==
    /\ call.fn = "fetch_data"
    /\ ret.outcome = "raise"
    /\ Len(ret.requests) = 3
    /\ ret.requests[3] = "timeout"

\* C29: the sensor manager creates the diagnostic sensors of a normalized
\* MAC at most once: an update it handles creates sensors only for MACs
\* that have none yet, also for a device that left the list and came back.
C29_SensorsCreatedAtMostOnce ==
    [][Handling => (new_devices' \cap entities = {})]_vars

\* C30: the published list has at most one record for a normalized MAC
\* address, also when the server returns several leases with one hardware
\* address.
C30_OneRecordPerMac ==
    \A i, j \in 1..Len(data) :
        i # j => normalize_mac_address(data[i].mac_address)
                     # normalize_mac_address(data[j].mac_address)

====
